---- MODULE Spec2Model ----
(***************************************************************************)
(* AkariProtocolMain (src/main/shards/akari-protocol/index.ts): the        *)
(* akari:// scheme router.  The model has four parts, each with its own    *)
(* specification over the same variables:                                  *)
(*   Spec        the domain registry, the onInit/onDispose lifecycle and   *)
(*               the per-partition request callback;                       *)
(*   SpecParse   the URL parsing of the callback on all short URLs;        *)
(*   SpecFile    _toLocalFileResponse plugged in as a domain handler;      *)
(*   SpecStream  convertWebStreamToNodeStream.                             *)
(* Strings are sequences of one-character strings, so that slice, indexOf  *)
(* and trim are computed the way JavaScript computes them.                 *)
(***************************************************************************)
EXTENDS Integers, Sequences, FiniteSets, Bags, TLC

VARIABLES
  registry,   \* _domainRegistry: function from the registered domains to handlers
  bound,      \* per partition: is the akari scheme handled in that session
  mime,       \* _mime: "undefined" until onInit has imported the module
  initPc,     \* position of the (async) onInit call: "idle" or "import"
  inflight,   \* the bag of handler invocations whose promise is still pending
  last,       \* the last call made on the shard and its outcome
  fs,         \* the filesystem node at the path the file responder resolves
  fileReq,    \* the running _toLocalFileResponse call and its response, with
              \* whether the node was changed since the call and, while it
              \* was not, the node found at the call
  source,     \* the web ReadableStream given to the stream adapter
  sourcePos,  \* number of chunks the reader has handed out
  sourceReads,\* number of reader.read() calls made
  genPc,      \* position of the adapter's async generator
  nodeOut,    \* chunks emitted on the node stream
  nodeEvents, \* what the node stream emitted besides data: "end", "error", "close"
  parseIn,    \* SpecParse: the request URL under test
  parseOut    \* SpecParse: the domain and uri the callback computed from it

routerVars == <<registry, bound, mime, initPc, inflight, last>>
fileVars   == <<fs, fileReq>>
streamVars == <<source, sourcePos, sourceReads, genPc, nodeOut, nodeEvents>>
parseVars  == <<parseIn, parseOut>>
vars == <<registry, bound, mime, initPc, inflight, last, fs, fileReq,
          source, sourcePos, sourceReads, genPc, nodeOut, nodeEvents, parseIn, parseOut>>

(***************************************************************************)
(* Bounds                                                                  *)
(***************************************************************************)
MaxInFlight == 2      \* handler invocations pending at once
MaxPathLen  == 3      \* SpecParse: longest text after "akari://"
MaxFileSize == 2      \* SpecFile: largest file, in bytes
MaxChunks   == 3      \* SpecStream: longest source stream, in chunks

(***************************************************************************)
(* JavaScript string primitives                                            *)
(***************************************************************************)
WhiteSpace == {" ", "\t"}

Min(a, b) == IF a < b THEN a ELSE b
Max(a, b) == IF a > b THEN a ELSE b

\* String.prototype.indexOf(c): 0-based index of the first c, -1 when absent
IndexOf(s, c) ==
  IF \E i \in 1..Len(s) : s[i] = c
  THEN (CHOOSE i \in 1..Len(s) : s[i] = c /\ \A j \in 1..(i - 1) : s[j] # c) - 1
  ELSE -1

\* String.prototype.slice(start, end): negative indexes count from the end
RelIndex(len, k) == IF k < 0 THEN Max(len + k, 0) ELSE Min(k, len)

Slice(s, start, end) ==
  LET from == RelIndex(Len(s), start)
      to   == RelIndex(Len(s), end)
  IN IF from >= to THEN <<>> ELSE SubSeq(s, from + 1, to)

\* String.prototype.slice(start)
SliceFrom(s, start) == Slice(s, start, Len(s))

RECURSIVE TrimStart(_)
TrimStart(s) ==
  IF s # <<>> /\ s[1] \in WhiteSpace THEN TrimStart(Tail(s)) ELSE s

RECURSIVE TrimEnd(_)
TrimEnd(s) ==
  IF s # <<>> /\ s[Len(s)] \in WhiteSpace
  THEN TrimEnd(SubSeq(s, 1, Len(s) - 1)) ELSE s

\* String.prototype.trim()
Trim(s) == TrimEnd(TrimStart(s))

(***************************************************************************)
(* The request callback: parsing (index.ts 57-60)                          *)
(***************************************************************************)
AKARI_PROXY_PROTOCOL == <<"a", "k", "a", "r", "i">>

SchemePrefix == AKARI_PROXY_PROTOCOL \o <<":", "/", "/">>

Path1(url) == SliceFrom(url, Len(SchemePrefix))

ParseDomain(url) ==
  LET path1 == Path1(url)
      index == IndexOf(path1, "/")
  IN Trim(Slice(path1, 0, index))

ParseUriFromLastSlash(url) ==
  LET path1 == Path1(url)
      index == IF \E i \in 1..Len(path1) : path1[i] = "/"
               THEN (CHOOSE i \in 1..Len(path1) :
                       path1[i] = "/" /\ \A j \in (i + 1)..Len(path1) : path1[j] # "/") - 1
               ELSE -1
  IN Trim(SliceFrom(path1, index + 1))

ParseUri(url) ==
  LET path1 == Path1(url)
      index == IndexOf(path1, "/")
  IN Trim(SliceFrom(path1, index + 1))

(***************************************************************************)
(* The domain registry (index.ts 26-29, 141-158)                           *)
(***************************************************************************)
Undefined == "undefined"

\* the handlers collaborators register; their behaviour is not the router's
Handlers == {"h1", "h2"}

\* the domain names collaborators pass: differing in case only, and empty
DomainArgs == {<<"a">>, <<"A">>, <<>>}

MapHas(m, k) == k \in DOMAIN m

MapGet(m, k) == IF k \in DOMAIN m THEN m[k] ELSE Undefined

MapSet(m, k, v) == [x \in (DOMAIN m) \cup {k} |-> IF x = k THEN v ELSE m[x]]

MapDelete(m, k) == [x \in (DOMAIN m) \ {k} |-> m[x]]

Ok == <<"ok">>

Throw(message, what) == <<"throw", message, what>>

\* registerDomain: what the call does to _domainRegistry
RegisterAlwaysSets(reg, domain, handler) == MapSet(reg, domain, handler)

RegistryAfterRegister(reg, domain, handler) ==
  IF MapHas(reg, domain) THEN reg ELSE MapSet(reg, domain, handler)

\* registerDomain: how the call completes
RegisterOutcome(reg, domain) ==
  IF MapHas(reg, domain) THEN Throw("is already registered", domain) ELSE Ok

\* unregisterDomain: what the call does to _domainRegistry
UnregisterClearsAll(reg, domain) ==
  IF ~MapHas(reg, domain) THEN reg ELSE <<>>

RegistryAfterUnregister(reg, domain) ==
  IF ~MapHas(reg, domain) THEN reg ELSE MapDelete(reg, domain)

\* unregisterDomain: how the call completes
UnregisterNeverThrows(reg, domain) == Ok

UnregisterOutcome(reg, domain) ==
  IF ~MapHas(reg, domain) THEN Throw("is not registered", domain) ELSE Ok

(***************************************************************************)
(* Partition binding (index.ts 38-56)                                      *)
(***************************************************************************)
MAIN_WINDOW_PARTITION == "main-window"
AUX_WINDOW_PARTITION  == "aux-window"

Partitions == {MAIN_WINDOW_PARTITION, AUX_WINDOW_PARTITION}

\* session.fromPartition(p).protocol.handle(scheme, cb): Electron refuses a
\* scheme that is already handled in that session
HandlePartition(st, p) ==
  IF st.out # Ok THEN st
  ELSE IF st.bound[p] THEN [bound |-> st.bound, out |-> Throw("Failed to register protocol", p)]
  ELSE [bound |-> [st.bound EXCEPT ![p] = TRUE], out |-> Ok]

\* session.fromPartition(p).protocol.unhandle(scheme): Electron refuses a
\* scheme that is not handled in that session
UnhandlePartition(st, p) ==
  IF st.out # Ok THEN st
  ELSE IF ~st.bound[p] THEN [bound |-> st.bound, out |-> Throw("Failed to unhandle protocol", p)]
  ELSE [bound |-> [st.bound EXCEPT ![p] = FALSE], out |-> Ok]

\* onInit after the import: lines 40-41
InitBindings(b) ==
  HandlePartition(HandlePartition([bound |-> b, out |-> Ok], MAIN_WINDOW_PARTITION),
                  AUX_WINDOW_PARTITION)

\* onDispose: lines 45-46
DisposeForgetsAux(b) ==
  UnhandlePartition([bound |-> b, out |-> Ok], MAIN_WINDOW_PARTITION)

DisposeSkipsMain(b) ==
  UnhandlePartition([bound |-> b, out |-> Ok], AUX_WINDOW_PARTITION)

DisposeBindings(b) ==
  UnhandlePartition(UnhandlePartition([bound |-> b, out |-> Ok], MAIN_WINDOW_PARTITION),
                    AUX_WINDOW_PARTITION)

(***************************************************************************)
(* The request callback: dispatch (index.ts 56-72)                         *)
(***************************************************************************)
\* the text after "akari://" of the requests issued in Spec
RequestPaths ==
  { <<"a", "/", "x">>, <<" ", "A", "/", "x">>, <<"a">> }

RequestUrls == { SchemePrefix \o p : p \in RequestPaths }

Request(url) == [url |-> url]

\* the fixed response of lines 67-71
FallbackWithoutUrl(req) ==
  [ status     |-> 404,
    statusText |-> "Not Found",
    headers    |-> [ContentType |-> "text/plain"],
    body       |-> <<"No handler for ">> ]

FallbackResponse(req) ==
  [ status     |-> 404,
    statusText |-> "Not Found",
    headers    |-> [ContentType |-> "text/plain"],
    body       |-> <<"No handler for ">> \o req.url ]

\* what handler h answers when invoked as h(uri, req), and what it fails with
HandlerResponse(h, uri, req) == [by |-> h, uri |-> uri, req |-> req]

HandlerFailure(h, uri, req) == [failedIn |-> h, uri |-> uri, req |-> req]

\* line 62: this._domainRegistry.get(domain)
LookupIgnoringCase(reg, domain) ==
  MapGet(reg, [i \in 1..Len(domain) |-> IF domain[i] = "A" THEN "a" ELSE domain[i]])

LookupHandler(reg, domain) == MapGet(reg, domain)

\* line 64: the callback returns the handler's promise as it is
CallbackCatches(settled) ==
  IF settled[1] = "reject"
  THEN <<"response", [status |-> 500, statusText |-> "", 
                      headers |-> [ContentType |-> "text/plain"], body |-> <<>>]>>
  ELSE settled

CallbackResult(settled) == settled

\* a handler invocation: handler(uri, req)
Invocation(handler, uri, req) == [handler |-> handler, uri |-> uri, req |-> req]

\* line 64: the handler that answers an invocation is the one the callback
\* found at line 62 and called, whatever the registry holds by then
LooksUpWhenSettling(reg, r) == MapGet(reg, ParseDomain(r.req.url))

InvokedHandler(reg, r) == r.handler

\* the pending invocations once the promise of r has settled: every callback
\* call has its own promise
SettlingDropsAll(bag, r) == EmptyBag

InflightAfterSettle(bag, r) == bag (-) SetToBag({r})

NoCall == [op |-> "none", args |-> <<>>, out |-> <<>>, calls |-> <<>>]

(***************************************************************************)
(* Spec: registry, lifecycle and requests                                  *)
(***************************************************************************)
otherVars == <<fs, fileReq, source, sourcePos, sourceReads, genPc, nodeOut, nodeEvents,
               parseIn, parseOut>>

RegisterDomain(domain, handler) ==
  /\ registry' = RegistryAfterRegister(registry, domain, handler)
  /\ last' = [op |-> "registerDomain", args |-> <<domain, handler>>,
              out |-> RegisterOutcome(registry, domain), calls |-> <<>>]
  /\ UNCHANGED <<bound, mime, initPc, inflight>>

UnregisterDomain(domain) ==
  /\ registry' = RegistryAfterUnregister(registry, domain)
  /\ last' = [op |-> "unregisterDomain", args |-> <<domain>>,
              out |-> UnregisterOutcome(registry, domain), calls |-> <<>>]
  /\ UNCHANGED <<bound, mime, initPc, inflight>>

\* onInit up to its await of the dynamic import (line 39)
OnInitCall ==
  /\ initPc = "idle"
  /\ initPc' = "import"
  /\ last' = [op |-> "onInit", args |-> <<>>, out |-> <<"pending">>, calls |-> <<>>]
  /\ UNCHANGED <<registry, bound, mime, inflight>>

\* onInit from the resolved import to its end (lines 39-41)
OnInitResume ==
  /\ initPc = "import"
  /\ initPc' = "idle"
  /\ mime' = "loaded"
  /\ bound' = InitBindings(bound).bound
  /\ last' = [op |-> "onInit", args |-> <<>>, out |-> InitBindings(bound).out,
              calls |-> <<>>]
  /\ UNCHANGED <<registry, inflight>>

OnDisposeClearsRegistry ==
  /\ bound' = DisposeBindings(bound).bound
  /\ registry' = <<>>
  /\ last' = [op |-> "onDispose", args |-> <<>>, out |-> DisposeBindings(bound).out,
              calls |-> <<>>]
  /\ UNCHANGED <<mime, initPc, inflight>>

OnDispose ==
  /\ bound' = DisposeBindings(bound).bound
  /\ last' = [op |-> "onDispose", args |-> <<>>, out |-> DisposeBindings(bound).out,
              calls |-> <<>>]
  /\ UNCHANGED <<registry, mime, initPc, inflight>>

\* the callback of lines 56-72 up to its return; Electron invokes it only
\* for a request of a session in which the scheme is handled
HandleRequest(partition, url) ==
  /\ bound[partition]
  /\ LET req     == Request(url)
         domain  == ParseDomain(req.url)
         uri     == ParseUri(req.url)
         handler == LookupHandler(registry, domain)
     IN IF handler # Undefined
        THEN /\ BagCardinality(inflight) < MaxInFlight
             /\ inflight' = inflight (+) SetToBag({Invocation(handler, uri, req)})
             /\ last' = [op |-> "request", args |-> <<partition, req>>,
                         out |-> <<"pending">>,
                         calls |-> << <<"call", handler, uri, req>> >>]
        ELSE /\ last' = [op |-> "request", args |-> <<partition, req>>,
                         out |-> <<"response", FallbackResponse(req)>>,
                         calls |-> <<>>]
             /\ UNCHANGED inflight
  /\ UNCHANGED <<registry, bound, mime, initPc>>

\* the promise of the handler invocation r settles, and with it the callback's
SettleRequest(r) ==
  /\ BagIn(r, inflight)
  /\ LET h == InvokedHandler(registry, r)
     IN \E settled \in { <<"response", HandlerResponse(h, r.uri, r.req)>>,
                         <<"reject", HandlerFailure(h, r.uri, r.req)>> } :
          last' = [op |-> "settle", args |-> <<r.req>>,
                   out |-> CallbackResult(settled),
                   calls |-> << <<settled[1], h, r.uri, r.req>> >>]
  /\ inflight' = InflightAfterSettle(inflight, r)
  /\ UNCHANGED <<registry, bound, mime, initPc>>

InitRouter ==
  /\ registry = <<>>
  /\ bound = [p \in Partitions |-> FALSE]
  /\ mime = Undefined
  /\ initPc = "idle"
  /\ inflight = EmptyBag
  /\ last = NoCall

\* nothing at the path
NoNode == [kind |-> "none", readable |-> FALSE, data |-> <<>>]

InitFileIdle ==
  /\ fs = NoNode
  /\ fileReq = [pc |-> "idle"]

InitStreamIdle ==
  /\ source = [chunks |-> <<>>, ending |-> "done"]
  /\ sourcePos = 0
  /\ sourceReads = 0
  /\ genPc = "unused"
  /\ nodeOut = <<>>
  /\ nodeEvents = <<>>

InitParseIdle ==
  /\ parseIn = <<>>
  /\ parseOut = [state |-> "idle"]

Init == InitRouter /\ InitFileIdle /\ InitStreamIdle /\ InitParseIdle

Next ==
  \/ \E d \in DomainArgs, h \in Handlers : RegisterDomain(d, h) /\ UNCHANGED otherVars
  \/ \E d \in DomainArgs : UnregisterDomain(d) /\ UNCHANGED otherVars
  \/ OnInitCall /\ UNCHANGED otherVars
  \/ OnInitResume /\ UNCHANGED otherVars
  \/ OnDispose /\ UNCHANGED otherVars
  \/ \E p \in Partitions, u \in RequestUrls : HandleRequest(p, u) /\ UNCHANGED otherVars
  \/ \E r \in BagToSet(inflight) : SettleRequest(r) /\ UNCHANGED otherVars

Spec == Init /\ [][Next]_vars

(***************************************************************************)
(* _toLocalFileResponse (index.ts 76-119)                                  *)
(***************************************************************************)
Bytes == {0, 1}

FileContents == UNION { [1..k -> Bytes] : k \in 0..MaxFileSize }

\* what can be found at the resolved path
\* a symbolic link that loops: every call on the path fails with ELOOP
LoopNode == [kind |-> "loop", readable |-> TRUE, data |-> <<>>]

FsNodes ==
  { NoNode, LoopNode }
    \cup { [kind |-> "dir", readable |-> r, data |-> <<>>] : r \in BOOLEAN }
    \cup { [kind |-> "file", readable |-> r, data |-> d] : r \in BOOLEAN, d \in FileContents }

\* line 77: path.resolve(uri)
ResolvePath(uri) == <<"cwd", "/">> \o uri

\* Number.prototype.toString() of a size
Digit(n) == <<"0", "1", "2", "3", "4", "5", "6", "7", "8", "9">>[n + 1]

RECURSIVE NumberToString(_)
NumberToString(n) ==
  IF n < 10 THEN <<Digit(n)>> ELSE NumberToString(n \div 10) \o <<Digit(n % 10)>>

\* fs.promises.access(filePath, F_OK | R_OK): the code it fails with
AccessError(node) ==
  IF node.kind = "none" THEN "ENOENT"
  ELSE IF node.kind = "loop" THEN "ELOOP"
  ELSE IF ~node.readable THEN "EACCES"
  ELSE "none"

\* fs.promises.stat(filePath): the code it fails with
StatError(node) ==
  IF node.kind = "none" THEN "ENOENT"
  ELSE IF node.kind = "loop" THEN "ELOOP"
  ELSE "none"

\* lines 101-118: the catch block
ErrorAlwaysNotFound(code, syscall, path) ==
  [ status  |-> 404,
    headers |-> [ContentType |-> "text/plain"],
    body    |-> <<"message", code, syscall>> \o path ]

ErrorResponse(code, syscall, path) ==
  [ status  |-> IF code = "ENOENT" THEN 404 ELSE IF code = "EACCES" THEN 403 ELSE 500,
    headers |-> [ContentType |-> "text/plain"],
    body    |-> <<"message", code, syscall>> \o path ]

\* lines 85-88
DirectoryResponse(uri) ==
  [ status  |-> 403,
    headers |-> [ContentType |-> "text/plain"],
    body    |-> <<"Cannot read directory: ">> \o uri ]

\* line 95: this._mime.getType(filePath) || 'application/octet-stream';
\* the paths of the model have no extension
ContentTypeOf(path) == "application/octet-stream"

\* lines 91-100: the body is a read stream that is opened when it is read
StreamResponseWithoutSize(path, size) ==
  [ status  |-> 200,
    headers |-> [ AccessControlAllowOrigin |-> "*",
                  Connection    |-> "keep-alive",
                  ContentType   |-> ContentTypeOf(path),
                  CacheControl  |-> "no-cache",
                  ContentLength |-> NumberToString(0) ],
    body    |-> <<"stream">> \o path ]

StreamResponse(path, size) ==
  [ status  |-> 200,
    headers |-> [ AccessControlAllowOrigin |-> "*",
                  Connection    |-> "keep-alive",
                  ContentType   |-> ContentTypeOf(path),
                  CacheControl  |-> "no-cache",
                  ContentLength |-> NumberToString(size) ],
    body    |-> <<"stream">> \o path ]

\* lines 82-100, from the resolved stat to the return
ServesDirectories(node, uri, mimeState) ==
  IF StatError(node) # "none"
  THEN ErrorResponse(StatError(node), "stat", ResolvePath(uri))
  ELSE IF mimeState = Undefined
  THEN ErrorResponse("TypeError", "getType", <<>>)
  ELSE StreamResponse(ResolvePath(uri), Len(node.data))

ResponseAfterStat(node, uri, mimeState) ==
  IF StatError(node) # "none"
  THEN ErrorResponse(StatError(node), "stat", ResolvePath(uri))
  ELSE IF node.kind = "dir"
  THEN DirectoryResponse(uri)
  ELSE IF mimeState = Undefined
  THEN ErrorResponse("TypeError", "getType", <<>>)
  ELSE StreamResponse(ResolvePath(uri), Len(node.data))

\* fs.createReadStream(filePath) when the body is read: the bytes delivered
\* and the error the stream ends with
ReadStreamResult(node) ==
  IF node.kind = "none" THEN [bytes |-> <<>>, error |-> "ENOENT"]
  ELSE IF node.kind = "loop" THEN [bytes |-> <<>>, error |-> "ELOOP"]
  ELSE IF ~node.readable THEN [bytes |-> <<>>, error |-> "EACCES"]
  ELSE IF node.kind = "dir" THEN [bytes |-> <<>>, error |-> "EISDIR"]
  ELSE [bytes |-> node.data, error |-> "none"]

\* a handler that answers with this._toLocalFileResponse(uri)
LocalFileHandler == "localFile"

FileDomain == <<"f">>

FileUrls == { SchemePrefix \o <<"f", "/", "p">> }

FileIdle == [pc |-> "idle"]

\* the handler is invoked: lines 76-80 up to the await of access
CallToLocalFileResponse(call) ==
  /\ fileReq.pc = "idle"
  /\ fileReq' = [pc |-> "access", call |-> call, uri |-> call.uri,
                 fsAtCall |-> fs, fsChanged |-> FALSE]

\* a request of SpecFile: the callback, and the handler's synchronous part
\* when the registry routes it to the file handler
RequestFile(partition, url) ==
  /\ HandleRequest(partition, url)
  /\ IF last'.calls # <<>> /\ last'.calls[1][2] = LocalFileHandler
     THEN CallToLocalFileResponse(Invocation(last'.calls[1][2], last'.calls[1][3],
                                             last'.calls[1][4]))
     ELSE UNCHANGED fileReq
  /\ UNCHANGED fs

\* the handler returns: the callback's promise resolves with its response
ReturnResponse(response, nextPc) ==
  LET r == fileReq.call
  IN /\ fileReq' = [pc |-> nextPc, call |-> r, uri |-> fileReq.uri,
                    fsAtCall |-> fileReq.fsAtCall, fsChanged |-> fileReq.fsChanged,
                    response |-> response,
                    bytes |-> <<>>, error |-> "none"]
     /\ inflight' = InflightAfterSettle(inflight, r)
     /\ last' = [op |-> "settle", args |-> <<r.req>>,
                 out |-> CallbackResult(<<"response", response>>),
                 calls |-> << <<"response", r.handler, r.uri, r.req>> >>]

\* line 80 resolves or rejects
FileAccess ==
  /\ fileReq.pc = "access"
  /\ IF AccessError(fs) # "none"
     THEN ReturnResponse(ErrorResponse(AccessError(fs), "access", ResolvePath(fileReq.uri)),
                         "done")
     ELSE /\ fileReq' = [fileReq EXCEPT !.pc = "stat"]
          /\ UNCHANGED <<inflight, last>>
  /\ UNCHANGED <<registry, bound, mime, initPc, fs>>

\* line 82 resolves or rejects, and the call runs to its return
FileStat ==
  /\ fileReq.pc = "stat"
  /\ LET response == ResponseAfterStat(fs, fileReq.uri, mime)
     IN ReturnResponse(response, IF response.status = 200 THEN "body" ELSE "done")
  /\ UNCHANGED <<registry, bound, mime, initPc, fs>>

\* the consumer of the response reads the body stream to its end
FileReadBody ==
  /\ fileReq.pc = "body"
  /\ fileReq' = [fileReq EXCEPT !.pc = "done",
                                !.bytes = ReadStreamResult(fs).bytes,
                                !.error = ReadStreamResult(fs).error]
  /\ UNCHANGED <<registry, bound, mime, initPc, inflight, last, fs>>

\* the response is dropped; the next request may come
FileRelease ==
  /\ fileReq.pc = "done"
  /\ fileReq' = FileIdle
  /\ UNCHANGED <<registry, bound, mime, initPc, inflight, last, fs>>

\* another process changes what is at the path
FsChange(node) ==
  /\ node # fs
  /\ fs' = node
  /\ fileReq' = IF fileReq.pc \in {"access", "stat", "body"}
                THEN [fileReq EXCEPT !.fsChanged = TRUE, !.fsAtCall = NoNode]
                ELSE fileReq
  /\ UNCHANGED <<registry, bound, mime, initPc, inflight, last>>

InitFile ==
  /\ InitRouter /\ InitStreamIdle /\ InitParseIdle
  /\ fs \in FsNodes
  /\ fileReq = FileIdle

fileOtherVars == <<source, sourcePos, sourceReads, genPc, nodeOut, nodeEvents, parseIn, parseOut>>

NextFile ==
  \/ RegisterDomain(FileDomain, LocalFileHandler) /\ UNCHANGED otherVars
  \/ UnregisterDomain(FileDomain) /\ UNCHANGED otherVars
  \/ OnInitCall /\ UNCHANGED otherVars
  \/ OnInitResume /\ UNCHANGED otherVars
  \/ OnDispose /\ UNCHANGED otherVars
  \/ \E p \in Partitions, u \in FileUrls : RequestFile(p, u) /\ UNCHANGED fileOtherVars
  \/ FileAccess /\ UNCHANGED fileOtherVars
  \/ FileStat /\ UNCHANGED fileOtherVars
  \/ FileReadBody /\ UNCHANGED fileOtherVars
  \/ FileRelease /\ UNCHANGED fileOtherVars
  \/ \E n \in FsNodes : FsChange(n) /\ UNCHANGED fileOtherVars

SpecFile == InitFile /\ [][NextFile]_vars

(***************************************************************************)
(* convertWebStreamToNodeStream (index.ts 121-139)                         *)
(***************************************************************************)
ChunkValues == {"c1", "c2"}

\* a source stream: its chunks, and what a read does once they are handed
\* out: signal done, fail, or stay pending for ever
Sources ==
  [ chunks : UNION { [1..k -> ChunkValues] : k \in 0..MaxChunks },
    ending : {"done", "error", "never"} ]

Closed == \E i \in 1..Len(nodeEvents) : nodeEvents[i] = "close"

\* line 130: yield value; Readable.from pushes it unless the stream
\* was destroyed
DropsAfterFirst(out, value) == IF out = <<>> THEN <<value>> ELSE out

Yielded(out, value) == Append(out, value)

\* what Readable.from does with a yielded value: it pushes it unless the
\* stream was destroyed
PushIgnoresClose(out, value, closed) == Yielded(out, value)

Pushed(out, value, closed) == IF closed THEN out ELSE Yielded(out, value)

\* lines 129 and 131-133: done and a failed read both leave the loop, the
\* generator returns and Readable.from ends the stream
AfterLoop(events) == Append(events, "end")

\* lines 131-133: the rejection of reader.read() is caught, nothing is thrown
\* out of the generator
RethrowsReadFailure(events) == Append(events, "error")

AfterCatch(events) == AfterLoop(events)

\* Readable.from asks the iterator for the next value: the generator
\* runs to the await of line 128
StreamPull ==
  /\ genPc \in {"start", "yield"}
  /\ nodeEvents = <<>>
  /\ genPc' = "read"
  /\ sourceReads' = sourceReads + 1
  /\ UNCHANGED <<source, sourcePos, nodeOut, nodeEvents>>

\* reader.read() resolves with a chunk; a generator whose return was
\* requested meanwhile finishes at the yield
ReadValue ==
  /\ genPc = "read"
  /\ sourcePos < Len(source.chunks)
  /\ sourcePos' = sourcePos + 1
  /\ genPc' = IF Closed THEN "completed" ELSE "yield"
  /\ nodeOut' = Pushed(nodeOut, source.chunks[sourcePos + 1], Closed)
  /\ UNCHANGED <<source, sourceReads, nodeEvents>>

\* reader.read() resolves with done
ReadDone ==
  /\ genPc = "read"
  /\ sourcePos = Len(source.chunks)
  /\ source.ending = "done"
  /\ genPc' = "completed"
  /\ nodeEvents' = IF Closed THEN nodeEvents ELSE AfterLoop(nodeEvents)
  /\ UNCHANGED <<source, sourcePos, sourceReads, nodeOut>>

\* reader.read() rejects
ReadFail ==
  /\ genPc = "read"
  /\ sourcePos = Len(source.chunks)
  /\ source.ending = "error"
  /\ genPc' = "completed"
  /\ nodeEvents' = IF Closed THEN nodeEvents ELSE AfterCatch(nodeEvents)
  /\ UNCHANGED <<source, sourcePos, sourceReads, nodeOut>>

\* the consumer destroys the node stream before its end: Readable.from
\* calls the iterator's return(), which finishes a suspended generator at
\* once and a running one when its pending await settles
ConsumerDestroy ==
  /\ nodeEvents = <<>>
  /\ genPc # "unused"
  /\ nodeEvents' = <<"close">>
  /\ genPc' = IF genPc \in {"start", "yield"} THEN "completed" ELSE genPc
  /\ UNCHANGED <<source, sourcePos, sourceReads, nodeOut>>

InitStream ==
  /\ InitRouter /\ InitFileIdle /\ InitParseIdle
  /\ source \in Sources
  /\ sourcePos = 0
  /\ sourceReads = 0
  /\ genPc = "start"
  /\ nodeOut = <<>>
  /\ nodeEvents = <<>>

NextStream ==
  \/ StreamPull /\ UNCHANGED <<routerVars, fileVars, parseVars>>
  \/ ReadValue /\ UNCHANGED <<routerVars, fileVars, parseVars>>
  \/ ReadDone /\ UNCHANGED <<routerVars, fileVars, parseVars>>
  \/ ReadFail /\ UNCHANGED <<routerVars, fileVars, parseVars>>
  \/ ConsumerDestroy /\ UNCHANGED <<routerVars, fileVars, parseVars>>

SpecStream == InitStream /\ [][NextStream]_vars

\* a read the source settles is delivered to the generator by the event loop
SpecStreamLive ==
  /\ SpecStream
  /\ WF_vars(ReadValue /\ UNCHANGED <<routerVars, fileVars, parseVars>>)
  /\ WF_vars(ReadDone /\ UNCHANGED <<routerVars, fileVars, parseVars>>)
  /\ WF_vars(ReadFail /\ UNCHANGED <<routerVars, fileVars, parseVars>>)

(***************************************************************************)
(* SpecParse: the parsing of lines 57-60 on every short URL                *)
(***************************************************************************)
ParseChars == {"a", "/", " ", "\t"}

BoundedPaths == UNION { [1..k -> ParseChars] : k \in 0..MaxPathLen }

\* the two URLs the documentation of the parsing rule uses
ExamplePaths ==
  { <<"f", "i", "l", "e", "s", "/", "a", "/", "b", "/", "c", ".", "t", "x", "t">>,
    <<"f", "i", "l", "e", "s">> }

ParseUrls == { SchemePrefix \o p : p \in BoundedPaths \cup ExamplePaths }

ParseRequest ==
  /\ parseOut.state = "idle"
  /\ parseOut' = [state |-> "parsed", domain |-> ParseDomain(parseIn),
                  uri |-> ParseUri(parseIn)]
  /\ UNCHANGED parseIn

InitParse ==
  /\ InitRouter /\ InitFileIdle /\ InitStreamIdle
  /\ parseIn \in ParseUrls
  /\ parseOut = [state |-> "idle"]

NextParse ==
  ParseRequest /\ UNCHANGED <<routerVars, fileVars, streamVars>>

SpecParse == InitParse /\ [][NextParse]_vars

(***************************************************************************)
(* Properties of the registry                                              *)
(***************************************************************************)
LastRequestUrl == last.args[2].url

\* C1: registerDomain(d, h) with d not registered succeeds and adds exactly
\* d -> h; with d registered it throws the already-registered error and
\* leaves every entry as it was; an entry changes only through a call on its
\* own domain, and a request whose domain is registered invokes the handler
\* the registry holds for it (so never a rejected h2).
StepC1 ==
  /\ last'.op = "registerDomain" =>
       LET d == last'.args[1]
           h == last'.args[2]
       IN IF d \in DOMAIN registry
          THEN /\ last'.out = Throw("is already registered", d)
               /\ registry' = registry
          ELSE /\ last'.out = Ok
               /\ DOMAIN registry' = (DOMAIN registry) \cup {d}
               /\ registry'[d] = h
               /\ \A k \in DOMAIN registry : registry'[k] = registry[k]
  /\ \A k \in DOMAIN registry :
       (k \notin DOMAIN registry' \/ registry'[k] # registry[k]) =>
          /\ last'.op = "unregisterDomain"
          /\ last'.args = <<k>>
  /\ (last'.op = "request" /\ ParseDomain(last'.args[2].url) \in DOMAIN registry) =>
       /\ Len(last'.calls) = 1
       /\ last'.calls[1][2] = registry[ParseDomain(last'.args[2].url)]

ThmC1 == [][StepC1]_vars

WitC1 ==
  /\ last.op = "registerDomain"
  /\ last.out[1] = "throw"
  /\ registry[last.args[1]] # last.args[2]

\* C2: unregisterDomain(d) with d not registered throws the not-registered
\* error and the registry after the call equals the registry before it.
StepC2 ==
  (last'.op = "unregisterDomain" /\ last'.args[1] \notin DOMAIN registry) =>
     /\ last'.out = Throw("is not registered", last'.args[1])
     /\ registry' = registry

ThmC2 == [][StepC2]_vars

WitC2 ==
  /\ last.op = "unregisterDomain"
  /\ last.out[1] = "throw"
  /\ last.args[1] \notin DOMAIN registry
  /\ DOMAIN registry # {}

(***************************************************************************)
(* Properties of the request callback                                      *)
(***************************************************************************)
\* C3: a request whose parsed domain is not registered when it is handled is
\* answered 404 "Not Found", Content-Type text/plain, body "No handler for "
\* followed by the full request URL, and no handler is invoked.
ThmC3 ==
  (last.op = "request" /\ ParseDomain(LastRequestUrl) \notin DOMAIN registry) =>
     /\ last.out[1] = "response"
     /\ last.out[2].status = 404
     /\ last.out[2].statusText = "Not Found"
     /\ last.out[2].headers = [ContentType |-> "text/plain"]
     /\ last.out[2].body = <<"No handler for ">> \o LastRequestUrl
     /\ last.calls = <<>>

WitC3 ==
  /\ last.op = "request"
  /\ ParseDomain(LastRequestUrl) \notin DOMAIN registry
  /\ DOMAIN registry # {}

\* C4: a request whose parsed domain is exactly a registry key invokes that
\* key's handler once, with the parsed remainder and the request, and no other
\* handler; when the handler answers, the callback's result is that answer.
ThmC4 ==
  /\ (last.op = "request" /\ ParseDomain(LastRequestUrl) \in DOMAIN registry) =>
       /\ last.calls = << <<"call", registry[ParseDomain(LastRequestUrl)],
                            ParseUri(LastRequestUrl), last.args[2]>> >>
       /\ last.out = <<"pending">>
       /\ BagIn(Invocation(registry[ParseDomain(LastRequestUrl)],
                           ParseUri(LastRequestUrl), last.args[2]), inflight)
  /\ (last.op = "settle" /\ last.calls[1][1] = "response") =>
       last.out = <<"response",
                    HandlerResponse(last.calls[1][2], last.calls[1][3], last.calls[1][4])>>

\* a request for "A" while "a" and "A" hold different handlers
WitC4 ==
  /\ last.op = "request"
  /\ ParseDomain(LastRequestUrl) = <<"A">>
  /\ <<"a">> \in DOMAIN registry
  /\ <<"A">> \in DOMAIN registry
  /\ registry[<<"a">>] # registry[<<"A">>]
  /\ last.calls # <<>>

\* C5: when the text s after "akari://" contains a "/", the domain is s before
\* its first "/" and the remainder is s after its first "/", each with the
\* surrounding (and only the surrounding) whitespace removed.
IsTrimOf(t, s) ==
  \E a \in 0..Len(s) : \E b \in 0..(Len(s) - a) :
    /\ \A i \in 1..a : s[i] \in WhiteSpace
    /\ \A i \in (Len(s) - b + 1)..Len(s) : s[i] \in WhiteSpace
    /\ t = [i \in 1..(Len(s) - a - b) |-> s[a + i]]
    /\ t # <<>> => (t[1] \notin WhiteSpace /\ t[Len(t)] \notin WhiteSpace)

TextAfterScheme == [i \in 1..(Len(parseIn) - 8) |-> parseIn[i + 8]]

HasSlash(s) == \E i \in 1..Len(s) : s[i] = "/"

FirstSlash(s) == CHOOSE i \in 1..Len(s) : s[i] = "/" /\ \A j \in 1..(i - 1) : s[j] # "/"

ThmC5 ==
  (parseOut.state = "parsed" /\ HasSlash(TextAfterScheme)) =>
     LET s == TextAfterScheme
         i == FirstSlash(s)
     IN /\ IsTrimOf(parseOut.domain, [k \in 1..(i - 1) |-> s[k]])
        /\ IsTrimOf(parseOut.uri, [k \in 1..(Len(s) - i) |-> s[i + k]])
        /\ s = <<"f", "i", "l", "e", "s", "/", "a", "/", "b", "/", "c", ".", "t", "x", "t">> =>
             /\ parseOut.domain = <<"f", "i", "l", "e", "s">>
             /\ parseOut.uri = <<"a", "/", "b", "/", "c", ".", "t", "x", "t">>

WitC5 ==
  /\ parseOut.state = "parsed"
  /\ TextAfterScheme = <<"f", "i", "l", "e", "s", "/", "a", "/", "b", "/", "c", ".", "t", "x", "t">>
  /\ parseOut.domain = <<"f", "i", "l", "e", "s">>

\* C6: when the text s after "akari://" contains no "/", the remainder is
\* empty and the domain is the whole of s, trimmed.
CexC6 ==
  (parseOut.state = "parsed" /\ ~HasSlash(TextAfterScheme)) =>
     /\ parseOut.uri = <<>>
     /\ IsTrimOf(parseOut.domain, TextAfterScheme)

\* C7 as stated: every request ends in a response, never in a rejection.
CexC7 ==
  last.op \in {"request", "settle"} => last.out[1] \in {"pending", "response"}

\* C7 amended: a request without a registered handler ends in the fallback
\* response; a dispatched request ends in its handler's response when the
\* handler answers, and in a rejection carrying the handler's own failure
\* when the handler fails: the callback does not turn it into a response.
ThmC7 ==
  /\ (last.op = "request" /\ last.calls = <<>>) => last.out[1] = "response"
  /\ (last.op = "settle" /\ last.calls[1][1] = "response") => last.out[1] = "response"
  /\ (last.op = "settle" /\ last.calls[1][1] = "reject") =>
       last.out = <<"reject",
                    HandlerFailure(last.calls[1][2], last.calls[1][3], last.calls[1][4])>>

WitC7 ==
  /\ last.op = "settle"
  /\ last.out[1] = "reject"

(***************************************************************************)
(* Properties of the lifecycle                                             *)
(***************************************************************************)
\* C10: when onInit returns both partitions are bound, when onDispose returns
\* neither is; a partition becomes bound only by onInit and unbound only by
\* onDispose; the callback handles a request only on a bound partition.
StepC10 ==
  /\ (last'.op = "onInit" /\ last'.out = Ok) => \A p \in Partitions : bound'[p]
  /\ (last'.op = "onDispose" /\ last'.out = Ok) => \A p \in Partitions : ~bound'[p]
  /\ \A p \in Partitions :
       /\ (~bound[p] /\ bound'[p]) => last'.op = "onInit"
       /\ (bound[p] /\ ~bound'[p]) => last'.op = "onDispose"
  /\ last'.op = "request" => (bound[last'.args[1]] /\ bound'[last'.args[1]])

ThmC10 == [][StepC10]_vars

\* onDispose has returned after an onInit had bound the partitions
WitC10 ==
  /\ last.op = "onDispose"
  /\ last.out = Ok
  /\ mime = "loaded"
  /\ \A p \in Partitions : ~bound[p]

(***************************************************************************)
(* Properties of the file responder                                        *)
(***************************************************************************)
RECURSIVE DecimalValue(_)
DecimalValue(str) ==
  IF str = <<>> THEN 0
  ELSE 10 * DecimalValue(SubSeq(str, 1, Len(str) - 1))
         + (CHOOSE n \in 0..9 : Digit(n) = str[Len(str)])

\* C8: when the node at the path did not change during the request, the
\* response is 200 with Content-Length the file's size and a body of the
\* file's bytes for a readable regular file, 403 without a body stream for a
\* readable directory, 404 for nothing at the path, 403 for an unreadable node.
ThmC8 ==
  (fileReq.pc \in {"body", "done"} /\ ~fileReq.fsChanged) =>
     LET r    == fileReq.response
         node == fileReq.fsAtCall
     IN /\ (node.kind = "file" /\ node.readable) =>
             /\ r.status = 200
             /\ DecimalValue(r.headers.ContentLength) = Len(node.data)
             /\ fileReq.pc = "done" => (fileReq.bytes = node.data /\ fileReq.error = "none")
        /\ (node.kind = "dir" /\ node.readable) => (r.status = 403 /\ fileReq.pc = "done")
        /\ node.kind = "none" => r.status = 404
        /\ (node.kind # "none" /\ ~node.readable) => r.status = 403

WitC8 ==
  /\ fileReq.pc = "done"
  /\ ~fileReq.fsChanged
  /\ fileReq.response.status = 200
  /\ fileReq.bytes # <<>>
  /\ fileReq.bytes = fileReq.fsAtCall.data

(***************************************************************************)
(* Properties of the stream adapter                                        *)
(***************************************************************************)
IsPrefix(a, b) == Len(a) <= Len(b) /\ \A i \in 1..Len(a) : a[i] = b[i]

\* C9: the node stream emits the source's chunks in order, none twice and
\* none skipped, and ends at most once; when the source has signalled done
\* and the consumer did not close the stream, it emitted all of them and
\* ended exactly once.
ThmC9 ==
  /\ genPc # "unused" =>
       /\ IsPrefix(nodeOut, source.chunks)
       /\ Len(nodeOut) <= sourcePos
       /\ Cardinality({i \in 1..Len(nodeEvents) : nodeEvents[i] = "end"}) <= 1
  /\ (genPc = "completed" /\ source.ending = "done" /\ ~Closed) =>
       /\ nodeOut = source.chunks
       /\ nodeEvents = <<"end">>

WitC9 ==
  /\ genPc = "completed"
  /\ source.ending = "done"
  /\ nodeEvents = <<"end">>
  /\ Len(nodeOut) >= 2
  /\ nodeOut[1] # nodeOut[2]

(***************************************************************************)
(* Properties of unregistration, concurrency and the lifecycle             *)
(***************************************************************************)
\* C11: unregisterDomain(d) with d registered returns and removes d alone;
\* a domain comes back only through a registerDomain on it, which succeeds
\* and maps it to the handler given; until then its requests get the 404.
StepC11 ==
  /\ (last'.op = "unregisterDomain" /\ last'.args[1] \in DOMAIN registry) =>
       /\ last'.out = Ok
       /\ DOMAIN registry' = (DOMAIN registry) \ {last'.args[1]}
       /\ \A k \in DOMAIN registry' : registry'[k] = registry[k]
  /\ \A k \in DOMAIN registry' :
       k \notin DOMAIN registry =>
          /\ last'.op = "registerDomain"
          /\ last'.out = Ok
          /\ last'.args = <<k, registry'[k]>>
  /\ (last'.op = "registerDomain" /\ last'.args[1] \notin DOMAIN registry) =>
       (last'.args[1] \in DOMAIN registry' /\ registry'[last'.args[1]] = last'.args[2])
  /\ (last'.op = "request" /\ ParseDomain(last'.args[2].url) \notin DOMAIN registry) =>
       /\ last'.calls = <<>>
       /\ last'.out[1] = "response"
       /\ last'.out[2].status = 404

ThmC11 == [][StepC11]_vars

WitC11 ==
  /\ last.op = "unregisterDomain"
  /\ last.out = Ok
  /\ DOMAIN registry # {}

StepC16 ==
  /\ last'.op = "settle" =>
       /\ \E r \in BagToSet(inflight) :
            /\ inflight' = inflight (-) SetToBag({r})
            /\ last'.args = <<r.req>>
            /\ r.uri = ParseUri(r.req.url)
            /\ last'.out \in { <<"response", HandlerResponse(r.handler, r.uri, r.req)>>,
                               <<"reject", HandlerFailure(r.handler, r.uri, r.req)>> }
       /\ registry' = registry
       /\ bound' = bound
  /\ last'.op = "request" =>
       /\ \A x \in BagToSet(inflight) : CopiesIn(x, inflight') >= CopiesIn(x, inflight)
       /\ last'.calls = <<>> => inflight' = inflight
       /\ registry' = registry
       /\ bound' = bound

ThmC16 == [][StepC16]_vars

\* a request failed while another one is still pending
WitC16 ==
  /\ last.op = "settle"
  /\ last.out[1] = "reject"
  /\ BagCardinality(inflight) >= 1
  /\ \E r \in BagToSet(inflight) : r.req # last.args[1]

\* C17: no key of the registry is the empty string.
CexC17 == <<>> \notin DOMAIN registry

\* C18: the handler that answers a request is the one the registry held for
\* its domain when the request was handled, whatever registerDomain and
\* unregisterDomain did to that domain since, and these calls leave the
\* pending invocations alone; a request handled later is routed by the
\* registry as it is then.
StepC18 ==
  /\ last'.op = "settle" =>
       \E r \in BagToSet(inflight) :
         /\ inflight' = inflight (-) SetToBag({r})
         /\ last'.calls[1][2] = r.handler
         /\ last'.out[1] = "response" => last'.out[2].by = r.handler
  /\ last'.op \in {"registerDomain", "unregisterDomain"} => inflight' = inflight
  /\ last'.op = "request" =>
       IF ParseDomain(last'.args[2].url) \in DOMAIN registry'
       THEN /\ Len(last'.calls) = 1
            /\ last'.calls[1][2] = registry'[ParseDomain(last'.args[2].url)]
            /\ BagIn(Invocation(registry'[ParseDomain(last'.args[2].url)],
                                ParseUri(last'.args[2].url), last'.args[2]), inflight')
       ELSE last'.calls = <<>>

ThmC18 == [][StepC18]_vars

\* a request was answered by the handler it was dispatched to, while the
\* registry now holds another handler for its domain
WitC18 ==
  /\ last.op = "settle"
  /\ last.out[1] = "response"
  /\ ParseDomain(last.args[1].url) \in DOMAIN registry
  /\ registry[ParseDomain(last.args[1].url)] # last.out[2].by

\* C19: onInit and onDispose leave the registry as it is; registerDomain and
\* unregisterDomain succeed or throw by the registry alone and touch no
\* binding; whenever a request is handled, the handler of its domain is the
\* one the registry holds, whenever it was registered.
StepC19 ==
  /\ last'.op \in {"onInit", "onDispose"} => registry' = registry
  /\ last'.op = "registerDomain" =>
       /\ bound' = bound
       /\ last'.out = Ok <=> last'.args[1] \notin DOMAIN registry
  /\ last'.op = "unregisterDomain" =>
       /\ bound' = bound
       /\ last'.out = Ok <=> last'.args[1] \in DOMAIN registry
  /\ (last'.op = "request" /\ ParseDomain(last'.args[2].url) \in DOMAIN registry) =>
       last'.calls = << <<"call", registry[ParseDomain(last'.args[2].url)],
                          ParseUri(last'.args[2].url), last'.args[2]>> >>

ThmC19 == [][StepC19]_vars

\* onInit has bound the partitions with the registry already filled
WitC19 ==
  /\ last.op = "onInit"
  /\ last.out = Ok
  /\ DOMAIN registry # {}
  /\ \A p \in Partitions : bound[p]

(***************************************************************************)
(* Properties of failures and of changes of the file during a request      *)
(***************************************************************************)
\* C12 as stated: a finished request of the file responder has met no
\* failure of its body stream, and a response other than 200 is text/plain
\* with status 404, 403 or 500.
CexC12 ==
  fileReq.pc = "done" =>
    /\ fileReq.error = "none"
    /\ fileReq.response.status # 200 =>
         /\ fileReq.response.headers.ContentType = "text/plain"
         /\ fileReq.response.status \in {403, 404, 500}

\* C12: a failure of the access check or of the stat is returned, never
\* thrown, as a text/plain response whose body is the failure's message, with
\* 404 when nothing is at the path, 403 when it may not be read and 500
\* otherwise; a failure of the opening or reading of the body comes after
\* the 200 response was returned, it is an error of the body stream that
\* changes no response, and it happens only when the path was changed during
\* the request.
StepC12 ==
  /\ (fileReq.pc = "access" /\ fileReq'.pc = "done") =>
       /\ fs.kind \notin {"file", "dir"} \/ ~fs.readable
       /\ last'.op = "settle"
       /\ last'.out = <<"response", fileReq'.response>>
       /\ fileReq'.response.headers = [ContentType |-> "text/plain"]
       /\ fileReq'.response.status =
            IF fs.kind = "none" THEN 404 ELSE IF fs.kind = "loop" THEN 500 ELSE 403
       /\ SubSeq(fileReq'.response.body, 1, 3) =
            <<"message",
              IF fs.kind = "none" THEN "ENOENT"
              ELSE IF fs.kind = "loop" THEN "ELOOP" ELSE "EACCES",
              "access">>
  /\ (fileReq.pc = "access" /\ fileReq'.pc = "stat") =>
       (fs.kind \in {"file", "dir"} /\ fs.readable)
  /\ (fileReq.pc = "stat" /\ fileReq'.pc \in {"body", "done"}) =>
       /\ last'.op = "settle"
       /\ last'.out = <<"response", fileReq'.response>>
       /\ fs.kind \in {"none", "loop"} =>
            /\ fileReq'.response.headers = [ContentType |-> "text/plain"]
            /\ fileReq'.response.status = IF fs.kind = "none" THEN 404 ELSE 500
            /\ SubSeq(fileReq'.response.body, 1, 3) =
                 <<"message", IF fs.kind = "none" THEN "ENOENT" ELSE "ELOOP", "stat">>
       /\ fileReq'.response.status = 200 => (fs.kind = "file" /\ fileReq'.pc = "body")
       /\ fileReq'.response.status # 200 =>
            /\ fileReq'.pc = "done"
            /\ fileReq'.response.headers = [ContentType |-> "text/plain"]
            /\ fileReq'.response.status \in {403, 404, 500}
  /\ (fileReq.pc = "body" /\ fileReq'.pc = "done") =>
       /\ fileReq'.response = fileReq.response
       /\ last' = last
       /\ inflight' = inflight
       /\ fileReq'.error # "none" <=> (fs.kind # "file" \/ ~fs.readable)
       /\ fileReq'.error # "none" => (fileReq.fsChanged /\ fileReq'.bytes = <<>>)

ThmC12 == [][StepC12]_vars

\* the file was removed after the stat: the 200 response was returned and
\* its body stream failed
WitC12 ==
  /\ fileReq.pc = "done"
  /\ fileReq.response.status = 200
  /\ fileReq.error = "ENOENT"
  /\ fileReq.bytes = <<>>

\* C20 as stated: the Content-Length of a 200 response is the number of
\* bytes its body stream delivers.
CexC20 ==
  (fileReq.pc = "done" /\ fileReq.response.status = 200) =>
     DecimalValue(fileReq.response.headers.ContentLength) = Len(fileReq.bytes)

\* C20: the Content-Length of a 200 response is the size of the file when
\* the stat resolves; the body stream delivers the bytes the file has when
\* it is read; the two agree when the path was not changed during the
\* request.
StepC20 ==
  /\ (fileReq.pc = "stat" /\ fileReq'.pc = "body") =>
       /\ fs.kind = "file"
       /\ fileReq'.response.status = 200
       /\ DecimalValue(fileReq'.response.headers.ContentLength) = Len(fs.data)
  /\ (fileReq.pc = "body" /\ fileReq'.pc = "done") =>
       /\ fileReq'.response = fileReq.response
       /\ (fs.kind = "file" /\ fs.readable) => fileReq'.bytes = fs.data
       /\ ~fileReq.fsChanged =>
            /\ fileReq'.error = "none"
            /\ Len(fileReq'.bytes) = DecimalValue(fileReq.response.headers.ContentLength)

ThmC20 == [][StepC20]_vars

\* the file was changed between the stat and the reading: the body is read
\* without error and its length is not the Content-Length
WitC20 ==
  /\ fileReq.pc = "done"
  /\ fileReq.response.status = 200
  /\ fileReq.error = "none"
  /\ fileReq.fsChanged
  /\ DecimalValue(fileReq.response.headers.ContentLength) # Len(fileReq.bytes)

(***************************************************************************)
(* Properties of the stream adapter on failure and on close                *)
(***************************************************************************)
\* C13: no error is ever emitted on the node stream; when a read of the
\* source has failed after its k chunks and the consumer did not close the
\* stream, the stream has emitted exactly these k chunks in order and ended
\* once, and the failed read, the k+1st, is the last read of the source.
ThmC13 ==
  /\ \A i \in 1..Len(nodeEvents) : nodeEvents[i] # "error"
  /\ (genPc = "completed" /\ source.ending = "error"
        /\ sourcePos = Len(source.chunks) /\ ~Closed) =>
       /\ nodeOut = source.chunks
       /\ nodeEvents = <<"end">>
       /\ sourceReads = Len(source.chunks) + 1
       /\ ~ENABLED StreamPull

WitC13 ==
  /\ genPc = "completed"
  /\ source.ending = "error"
  /\ nodeEvents = <<"end">>
  /\ sourceReads = Len(nodeOut) + 1
  /\ Len(nodeOut) >= 1

\* the read in flight at the close never settles and nothing more can happen
PendingForEver ==
  /\ genPc = "read"
  /\ sourcePos = Len(source.chunks)
  /\ source.ending = "never"

\* C14 as stated: once the consumer has closed the node stream, the
\* generator comes to its end.
CexC14 == Closed ~> (genPc = "completed")

\* C14: once the consumer has closed the node stream, no read of the source
\* is issued and no chunk is emitted any more; a generator that is not
\* awaiting a read has finished, and one that is finishes when that read
\* settles, which a source that stays silent never lets happen.
StepC14 ==
  Closed => /\ sourceReads' = sourceReads
            /\ nodeOut' = nodeOut
            /\ nodeEvents' = nodeEvents

ThmC14 ==
  /\ [][StepC14]_vars
  /\ [](Closed => genPc \in {"read", "completed"})
  /\ Closed ~> (genPc = "completed" \/ PendingForEver)

\* the stream was closed with a read in flight on a source that stays silent
WitC14 ==
  /\ Closed
  /\ PendingForEver
  /\ Len(nodeOut) >= 1

====
